---------------------------- MODULE Spec2Model ----------------------------
(***************************************************************************)
(* Model of the STF jurisprudence scrapers:                                *)
(*   STFScraperSimples (src/exemplo.py) and STFScraper                     *)
(*   (src/sem_smolagents.py).                                              *)
(* One call of buscar_jurisprudencia or obter_detalhes_processo is         *)
(* followed from the HTTP GET through parsing, the per-item loop and the   *)
(* fallback to the returned value.  Text is a sequence of one-character    *)
(* strings; an HTML element is a record of the sub-elements the code       *)
(* selects.                                                                *)
(***************************************************************************)
EXTENDS Integers, Sequences, FiniteSets, TLC

VARIABLES
  cls,           \* which class the call is made on: "Simples" | "STF"
  op,            \* "none" | "buscar" | "detalhes"
  pc,            \* position inside the call
  query,         \* argument query / numero_processo
  max_results,   \* argument max_results
  net,           \* outcome of the last session.get: "none" | "error" | "timeout" | "response"
  response,      \* [status, body] of the last response (NoResponse before)
  result_items,  \* result_items[:max_results], the list the loop iterates
  idx,           \* 1-based position of the loop in result_items
  resultados,    \* the accumulated records
  ret,           \* the returned value
  path,          \* which return statement produced ret
  getCount,      \* number of session.get calls issued in this call
  fallbackCalls, \* number of fallback invocations in this call
  doc_url,       \* documento_url of obter_detalhes_processo
  doc_response,  \* response of the document GET
  requested,     \* the URLs passed to session.get in this call, in order
  exc            \* the class of the exception raised inside the try block

vars == <<cls, op, pc, query, max_results, net, response, result_items, idx,
          resultados, ret, path, getCount, fallbackCalls, doc_url, doc_response,
          requested, exc>>

---------------------------------------------------------------------------
(* Bounds of the model *)

\* largest number of div.search-result-item nodes in a served page (a few
\* longer pages, LongPages, are served as well)
MaxItems == 2
\* largest max_results argument tried
MaxResults == 3
\* largest number of records the fallback's JSON may hold
MaxFallback == 3

---------------------------------------------------------------------------
(* Text helpers: Python str operations on sequences of characters *)

Space == {" ", "\n"}
Upper == {"A", "B", "C", "D", "E", "F", "G", "H", "I", "J", "K", "L", "M",
          "N", "O", "P", "Q", "R", "S", "T", "U", "V", "W", "X", "Y", "Z"}
Digit == {"0", "1", "2", "3", "4", "5", "6", "7", "8", "9"}

Min(S) == CHOOSE x \in S : \A y \in S : x <= y
Max(S) == CHOOSE x \in S : \A y \in S : x >= y

\* str.strip(): drop leading and trailing whitespace
Strip(t) ==
  LET n  == Len(t)
      \* the first position that holds no whitespace, n + 1 when none does
      lo == CHOOSE i \in 1..(n + 1) :
              /\ \A j \in 1..(i - 1) : t[j] \in Space
              /\ (i = n + 1 \/ t[i] \notin Space)
      \* the number of whitespace characters at the end
      tr == CHOOSE k \in 0..n :
              /\ \A j \in (n - k + 1)..n : t[j] \in Space
              /\ (k = n \/ t[n - k] \notin Space)
  IN  IF lo > n - tr THEN <<>> ELSE SubSeq(t, lo, n - tr)

RECURSIVE GetText(_)
\* Tag.get_text(strip=True): every string of the element stripped, the empty
\* ones skipped, joined with no separator
GetText(strings) ==
  IF strings = <<>> THEN <<>>
  ELSE Strip(Head(strings)) \o GetText(Tail(strings))

\* pat occurs in t at position i
StartsAt(t, i, pat) ==
  /\ i >= 1
  /\ i + Len(pat) - 1 <= Len(t)
  /\ \A k \in 1..Len(pat) : t[i + k - 1] = pat[k]

\* str.find, 1-based; 0 when pat does not occur
Find(t, pat) ==
  LET hits == {i \in 1..Len(t) : StartsAt(t, i, pat)}
  IN  IF hits = {} THEN 0 ELSE Min(hits)

RECURSIVE Replace(_, _)
\* str.replace(pat, ""): every non-overlapping occurrence, left to right
Replace(t, pat) ==
  LET p == Find(t, pat)
  IN  IF p = 0 THEN t
      ELSE SubSeq(t, 1, p - 1) \o Replace(SubSeq(t, p + Len(pat), Len(t)), pat)

\* s[:n] for n >= 0
Prefix(s, n) == SubSeq(s, 1, IF n < Len(s) THEN n ELSE Len(s))

---------------------------------------------------------------------------
(* Optional values: Python None is the empty tuple, a present value x is <<x>> *)

None == <<>>
Some(x) == <<x>>
Val(o) == o[1]

---------------------------------------------------------------------------
(* Program constants *)

\* BASE_URL
BASE_URL == <<"h", "t", "t", "p", "s", ":", "/", "/", "j", "u", "r", "i", "s", "p", "r", "u", "d", "e", "n", "c", "i", "a", ".", "s", "t", "f", ".", "j", "u", "s", ".", "b", "r">>

\* ementa[:300] in STFScraperSimples
LimitSimples == 300
\* ementa[:500] in STFScraper
LimitSTF == 500

\* the truncation marker "..."
Marker == <<".", ".", ".">>

LabelRelator == <<"R", "e", "l", "a", "t", "o", "r", ":">>
LabelJulgamento == <<"J", "u", "l", "g", "a", "m", "e", "n", "t", "o", ":">>

---------------------------------------------------------------------------
(* Pattern matching *)

\* length of the run of characters of class C that starts at position i
RunLen(t, i, C) ==
  LET stop == Min({j \in i..(Len(t) + 1) : j = Len(t) + 1 \/ t[j] \notin C})
  IN  stop - i

\* the number of letters (4, 3 or 2, the greedy order of {2,4}) with which
\* [A-Z]{2,4}\s\d+ matches at position i; 0 when it does not match there
ProcessoLettersAt(t, i) ==
  LET ks == {k \in 2..4 :
               /\ i + k + 1 <= Len(t)
               /\ \A j \in i..(i + k - 1) : t[j] \in Upper
               /\ t[i + k] \in Space
               /\ t[i + k + 1] \in Digit}
  IN  IF ks = {} THEN 0 ELSE Max(ks)

\* re.search(r'([A-Z]{2,4}\s\d+)', titulo): group(1) of the leftmost match,
\* "" when there is none (numero_processo keeps its initial "")
ProcessoMatch(t) ==
  LET hits == {i \in 1..Len(t) : ProcessoLettersAt(t, i) > 0}
  IN  IF hits = {} THEN <<>>
      ELSE LET first   == Min(hits)
               letters == ProcessoLettersAt(t, first)
               digits  == RunLen(t, first + letters + 1, Digit)
           IN  SubSeq(t, first, first + letters + digits)

\* re.search(label + r'\s*([^,]+)', t): group(1).strip() of the leftmost
\* match, "" when there is none.  The pattern matches at an occurrence of the
\* label iff a character other than "," follows it; \s* is greedy and gives
\* one whitespace character back when a comma or the end follows the run.
LabelMatch(t, label) ==
  LET n    == Len(label)
      hits == {p \in 1..Len(t) :
                 /\ StartsAt(t, p, label)
                 /\ p + n <= Len(t)
                 /\ t[p + n] # ","}
  IN  IF hits = {} THEN <<>>
      ELSE LET s == Min(hits) + n
               w == s + RunLen(t, s, Space)
               g == IF w <= Len(t) /\ t[w] # ","
                    THEN SubSeq(t, w, w + RunLen(t, w, {c \in {t[j] : j \in 1..Len(t)} : c # ","}) - 1)
                    ELSE <<t[w - 1]>>
           IN  Strip(g)

\* select_one('div.search-result-metadata span:contains(label)') followed by
\* get_text(strip=True).replace(label, "").strip(); "" when no span matches
SpanMatch(spans, label) ==
  LET hits == {i \in 1..Len(spans) : Find(spans[i], label) > 0}
  IN  IF hits = {} THEN <<>>
      ELSE Strip(Replace(GetText(<<spans[Min(hits)]>>), label))

---------------------------------------------------------------------------
(* The pages the server may answer with *)

\* a text of n characters whose characters differ from place to place
Filler(n) == [i \in 1..n |-> <<"a", "b", "c", "d", "e", "f", "g">>[(i % 7) + 1]]

\* A div.search-result-item as the code sees it:
\*   h4    the h4.search-result-title: None, or its strings and its a element
\*         (None, or the a's href attribute: None or a text)
\*   meta  the div.search-result-metadata: None, or the texts of its spans
\*   text  the div.search-result-text: None, or its strings
\*   fault the extraction step of this item that raises, "none" when none does
Item(h4, meta, text, fault) == [h4 |-> h4, meta |-> meta, text |-> text, fault |-> fault]
H4(strings, a) == Some([strings |-> strings, a |-> a])
Anchor(href) == Some([href |-> href])

MetaFull == Some(<<<<" ", "R", "e", "l", "a", "t", "o", "r", ":", " ", "M", "i", "n", ".", " ", "A", " ">>, <<"J", "u", "l", "g", "a", "m", "e", "n", "t", "o", ":", " ", "1", "/", "2">>>>)
MetaDate == Some(<<<<"J", "u", "l", "g", "a", "m", "e", "n", "t", "o", ":", "3", "/", "4", ",", "D", "J">>>>)

\* well-formed, summary of exactly LimitSimples characters inside whitespace
ItemA == Item(H4(<<<<" ", "A", "D", "P", "F", " ", "5", "4", " ">>>>, Anchor(Some(<<"/", "d", "/", "1">>))), MetaFull,
              Some(<<<<" ">> \o Filler(LimitSimples) \o <<"\n">>>>), "none")
\* well-formed, summary one character over LimitSimples, two strings
ItemB == Item(H4(<<<<"R", "E", " ", "1", " ", "x">>>>, Anchor(Some(<<"/", "d", "/", "2">>))), None,
              Some(<<Filler(LimitSimples), <<" ", "z", " ">>>>), "none")
\* well-formed, summary of exactly LimitSTF characters
ItemC == Item(H4(<<<<"H", "C", " ", "9">>>>, Anchor(Some(<<"/", "d", "/", "3">>))), MetaDate,
              Some(<<Filler(LimitSTF)>>), "none")
\* well-formed, summary one character over LimitSTF
ItemD == Item(H4(<<<<"A", "D", "I", " ", "7">>>>, Anchor(Some(<<"/", "d", "/", "4">>))), MetaFull,
              Some(<<Filler(LimitSTF + 1)>>), "none")
\* heading and anchor present but bare: no title text, no href, nothing else
ItemE == Item(H4(<<<<" ">>>>, Anchor(None)), None, None, "none")
\* well-formed, the title broken over two lines inside the docket number
ItemBroken == Item(H4(<<<<"R", "E", "\n", "1", "2">>>>, Anchor(Some(<<"/", "d", "/", "5">>))), None, None, "none")
\* no h4.search-result-title
ItemNoTitle == Item(None, MetaFull, Some(<<<<"e", "m">>>>), "none")
\* h4.search-result-title without an a element
ItemNoLink == Item(H4(<<<<" ", "A", "D", "P", "F", " ", "5", "4", " ">>>>, None), MetaDate, Some(<<<<"e", "m">>>>), "none")
\* well-formed, but the relator selection raises
ItemFault == Item(H4(<<<<"R", "E", " ", "1", " ", "x">>>>, Anchor(Some(<<"/", "d", "/", "2">>))), MetaFull, Some(<<<<"e", "m">>>>), "relator")

Items == {ItemA, ItemB, ItemC, ItemD, ItemE, ItemBroken, ItemNoTitle, ItemNoLink,
          ItemFault}

RECURSIVE SeqsUpTo(_, _)
\* the sequences over S of length at most n
SeqsUpTo(S, n) ==
  IF n = 0 THEN {<<>>}
  ELSE LET shorter == SeqsUpTo(S, n - 1)
       IN  shorter \cup {Append(q, x) : q \in {r \in shorter : Len(r) = n - 1}, x \in S}

\* response.text: markup html.parser rejects (BeautifulSoup raises), or a
\* document with its div.search-result-item nodes in document order
Rejected == [ok |-> FALSE, items |-> <<>>]
Page(items) == [ok |-> TRUE, items |-> items]
\* pages of three items: a raising item between two well-formed ones,
\* malformed items around a well-formed one, more items than max_results
LongPages ==
  {Page(<<ItemA, ItemFault, ItemB>>), Page(<<ItemNoTitle, ItemC, ItemNoLink>>),
   Page(<<ItemD, ItemE, ItemA>>)}
Pages == {Page(q) : q \in SeqsUpTo(Items, MaxItems)} \cup LongPages

NoResponse == [status |-> 0, body |-> Rejected]

---------------------------------------------------------------------------
(* The document page of obter_detalhes_processo *)

\* str.lower() on the characters the labels use; a character outside ASCII
\* is written by its name
UpperSeq == <<"A", "B", "C", "D", "E", "F", "G", "H", "I", "J", "K", "L", "M",
              "N", "O", "P", "Q", "R", "S", "T", "U", "V", "W", "X", "Y", "Z",
              "C_cedilla", "A_tilde", "O_acute">>
LowerSeq == <<"a", "b", "c", "d", "e", "f", "g", "h", "i", "j", "k", "l", "m",
              "n", "o", "p", "q", "r", "s", "t", "u", "v", "w", "x", "y", "z",
              "c_cedilla", "a_tilde", "o_acute">>
LowerChar(c) ==
  IF \E i \in 1..Len(UpperSeq) : UpperSeq[i] = c
  THEN LowerSeq[CHOOSE i \in 1..Len(UpperSeq) : UpperSeq[i] = c]
  ELSE c
Lower(t) == [i \in 1..Len(t) |-> LowerChar(t[i])]

\* the substrings the metadata labels are matched against
KeyRelator == <<"r", "e", "l", "a", "t", "o", "r">>
KeyJulgamento == <<"j", "u", "l", "g", "a", "m", "e", "n", "t", "o">>
KeyPublicacao == <<"p", "u", "b", "l", "i", "c", "a", "c_cedilla", "a_tilde", "o">>
KeyOrgao == <<"o_acute", "r", "g", "a_tilde", "o", " ", "j", "u", "l", "g", "a", "d", "o", "r">>

\* A document page as the code sees it:
\*   titulo    h1.document-title: None or its strings
\*   metadata  the div.document-metadata-item nodes, each with its label and
\*             its value element (None or a text)
\*   ementa    div.document-ementa: None or its strings
\*   decisao   div.document-decisao: None or its strings
\*   partes    div.document-partes: None or its div.document-parte-item
\*             nodes, each with its tipo and its nome element
Doc(titulo, metadata, ementa, decisao, partes) ==
  [ok |-> TRUE, titulo |-> titulo, metadata |-> metadata, ementa |-> ementa,
   decisao |-> decisao, partes |-> partes]
MetaItem(label, value) == [label |-> label, value |-> value]
Parte(tipo, nome) == [tipo |-> tipo, nome |-> nome]

\* a page without any of the elements the code selects: the document root
\* container is not there
DocBare == Doc(None, <<>>, None, None, None)
\* a complete document
DocFull ==
  Doc(Some(<<<<" ", "A", "D", "P", "F", " ", "5", "4", " ">>>>),
      <<MetaItem(Some(<<"R", "e", "l", "a", "t", "o", "r", ":">>), Some(<<"M", "a", "r", "c", "o">>)),
        MetaItem(Some(<<"D", "a", "t", "a", " ", "d", "e", " ", "J", "u", "l", "g", "a", "m", "e", "n", "t", "o">>), Some(<<"1", "2", "/", "0", "4">>)),
        MetaItem(Some(<<"P", "U", "B", "L", "I", "C", "A", "C_cedilla", "A_tilde", "O">>), Some(<<"3", "0", "/", "0", "4">>)),
        MetaItem(Some(<<"O_acute", "r", "g", "a_tilde", "o", " ", "J", "u", "l", "g", "a", "d", "o", "r">>), Some(<<"P", "l", "e", "n", "o">>))>>,
      Some(<<<<" ", "e", "m", " ">>>>), Some(<<<<"d", "e", "c">>>>),
      Some(<<Parte(Some(<<"R", "E", "Q", "T", "E">>), Some(<<"C", "N", "T", "S">>)), Parte(Some(<<"A", "D", "V">>), Some(<<"L", "B">>))>>))
\* metadata whose items lack an element, carry an unknown label or a label
\* with two keys; parties that lack an element or repeat
DocOdd ==
  Doc(Some(<<<<" ", "A", "D", "P", "F", " ", "5", "4", " ">>>>),
      <<MetaItem(None, Some(<<"M", "a", "r", "c", "o">>)),
        MetaItem(Some(<<"C", "l", "a", "s", "s", "e">>), Some(<<"3", "0", "/", "0", "4">>)),
        MetaItem(Some(<<"J", "u", "l", "g", "a", "m", "e", "n", "t", "o", " ", "d", "o", " ", "R", "e", "l", "a", "t", "o", "r">>), Some(<<"1", "2", "/", "0", "4">>)),
        MetaItem(Some(<<"R", "e", "l", "a", "t", "o", "r", ":">>), None)>>,
      None, Some(<<<<"d", "e", "c">>>>),
      Some(<<Parte(Some(<<"R", "E", "Q", "T", "E">>), None), Parte(Some(<<"A", "D", "V">>), Some(<<"L", "B">>)),
             Parte(None, Some(<<"C", "N", "T", "S">>)), Parte(Some(<<"A", "D", "V">>), Some(<<"L", "B">>))>>))
\* only a title
DocTitleOnly == Doc(Some(<<<<" ", "A", "D", "P", "F", " ", "5", "4", " ">>>>), <<>>, None, None, None)
\* elements present but empty
DocEmpty == Doc(Some(<<<<" ">>>>), <<>>, Some(<<>>), Some(<<>>), Some(<<>>))
\* markup html.parser rejects
DocRejected == [ok |-> FALSE]

DocBodies == {DocBare, DocFull, DocOdd, DocTitleOnly, DocEmpty, DocRejected}
DocResponses ==
  {[status |-> 200, body |-> b] : b \in DocBodies}
    \cup {[status |-> st, body |-> DocBare] : st \in {203, 404, 500}}

\* the docket numbers asked for
Dockets == {<<"A", "D", "P", "F", " ", "5", "4">>, <<"R", "E", " ", "1">>}

\* what the language model's answer makes of _fallback_processo
FallbackDetalhes(numero) ==
  [numero_processo |-> numero, titulo |-> <<"I", "A">>, relator |-> <<"M", "i", "n", ".", " ", "B">>,
   data_julgamento |-> <<>>, data_publicacao |-> <<>>, orgao_julgador |-> <<>>,
   ementa |-> <<"g", "e", "r", "a", "d", "o">>, decisao |-> <<>>, partes |-> <<>>, link |-> <<>>]
\* the dict returned when the completion call raises
FallbackErro(numero) ==
  [numero_processo |-> numero, erro |-> <<"e", "r", "r", "o">>]

\* status codes the server may answer with
Statuses == {200, 203, 404, 500}

\* the responses session.get may return; the bodies that come with a status
\* other than 200 are few, the code reads at most their items
Responses ==
  {[status |-> 200, body |-> b] : b \in Pages \cup {Rejected}}
    \cup {[status |-> st, body |-> b] :
            st \in Statuses \ {200},
            b \in {Rejected, Page(<<>>), Page(<<ItemA>>), Page(<<ItemNoLink, ItemB>>)}}

Queries == {<<"a", "b", "o", "r", "t", "o">>, <<"a", " ", "\"", "c_cedilla", "&">>}

\* what the language model's answer makes of _fallback_search: a record the
\* model wrote, n of them under the key "resultados"
FallbackRecord ==
  [titulo |-> <<"I", "A">>, numero_processo |-> <<"R", "E", " ", "2">>, relator |-> <<"M", "i", "n", ".", " ", "B">>,
   data_julgamento |-> <<>>, ementa |-> <<"g", "e", "r", "a", "d", "o">>, link |-> <<>>]
FallbackList(n) == [i \in 1..n |-> FallbackRecord]

---------------------------------------------------------------------------
(* The search URL *)

\* urllib.parse.quote: letters, digits and _ . - ~ / stay, every other
\* character becomes %XX for each byte of its UTF-8 encoding
QuoteSafe == Upper \cup Digit \cup {LowerSeq[i] : i \in 1..26} \cup {"_", ".", "-", "~", "/"}
QuoteChar(c) ==
  IF c \in QuoteSafe THEN <<c>>
  ELSE CASE c = " "  -> <<"%", "2", "0">>
         [] c = "\n" -> <<"%", "0", "A">>
         [] c = "\"" -> <<"%", "2", "2">>
         [] c = "%"  -> <<"%", "2", "5">>
         [] c = "&"  -> <<"%", "2", "6">>
         [] c = ","  -> <<"%", "2", "C">>
         [] c = ":"  -> <<"%", "3", "A">>
         [] c = "="  -> <<"%", "3", "D">>
         [] c = "?"  -> <<"%", "3", "F">>
         [] c = "c_cedilla" -> <<"%", "C", "3", "%", "A", "7">>
         [] c = "a_tilde"   -> <<"%", "C", "3", "%", "A", "3">>
         [] c = "o_acute"   -> <<"%", "C", "3", "%", "B", "3">>
         [] c = "C_cedilla" -> <<"%", "C", "3", "%", "8", "7">>
         [] c = "A_tilde"   -> <<"%", "C", "3", "%", "8", "3">>
         [] c = "O_acute"   -> <<"%", "C", "3", "%", "9", "3">>

RECURSIVE Quote(_)
Quote(t) == IF t = <<>> THEN <<>> ELSE QuoteChar(Head(t)) \o Quote(Tail(t))

RECURSIVE Str(_)
\* str(n) of the f-string: the decimal digits, "-" first for a negative n
Str(n) ==
  IF n < 0 THEN <<"-">> \o Str(0 - n)
  ELSE IF n < 10 THEN <<<<"0", "1", "2", "3", "4", "5", "6", "7", "8", "9">>[n + 1]>>
  ELSE Str(n \div 10) \o Str(n % 10)

\* SEARCH_URL = f"{BASE_URL}/pages/search"
SEARCH_URL == BASE_URL \o <<"/", "p", "a", "g", "e", "s", "/", "s", "e", "a", "r", "c", "h">>

UrlHead == <<"?", "b", "a", "s", "e", "=", "a", "c", "o", "r", "d", "a", "o", "s", "&", "s", "i", "n", "o", "n", "i", "m", "o", "=", "t", "r", "u", "e", "&", "p", "l", "u", "r", "a", "l", "=", "t", "r", "u", "e", "&", "p", "a", "g", "e", "=", "1", "&", "p", "a", "g", "e", "S", "i", "z", "e", "=">>
UrlTail == <<"&", "s", "o", "r", "t", "=", "_", "s", "c", "o", "r", "e", "&", "s", "o", "r", "t", "B", "y", "=", "d", "e", "s", "c", "&", "q", "u", "e", "r", "y", "=">>

\* search_url of buscar_jurisprudencia: pageSize={max_results},
\* query={quote(query)}
SearchUrl(q, m) == SEARCH_URL \o UrlHead \o Str(m) \o UrlTail \o Quote(q)

\* (mutant) the docket number is encoded without the quotes around it
LookupUrlBare(numero) == SEARCH_URL \o UrlHead \o Str(1) \o UrlTail \o Quote(numero)

\* search_url of obter_detalhes_processo: pageSize=1,
\* query={quote(f'"{numero_processo}"')}
LookupUrl(numero) ==
  SEARCH_URL \o UrlHead \o Str(1) \o UrlTail \o Quote(<<"\"">> \o numero \o <<"\"">>)

\* the URL of the first GET of a call
RequestUrl(o, q, m) == IF o = "buscar" THEN SearchUrl(q, m) ELSE LookupUrl(q)

---------------------------------------------------------------------------
(* buscar_jurisprudencia: the decisions of the code *)

\* response.raise_for_status() raises HTTPError
RaiseForStatus(status) == status >= 400 /\ status < 600

\* STFScraper only: if response.status_code != 200: return fallback
StatusNot200(c, status) == c = "STF" /\ status # 200

\* (mutant) no client-side truncation: every item of the page is processed
WindowUncut(items, m) == items

\* result_items[:max_results], a Python slice: a negative bound counts from
\* the end
Window(items, m) ==
  LET n == Len(items)
      k == IF m >= 0 THEN (IF m < n THEN m ELSE n)
           ELSE (IF n + m > 0 THEN n + m ELSE 0)
  IN  SubSeq(items, 1, k)

\* the limit of the summary, by class
Limit(c) == IF c = "Simples" THEN LimitSimples ELSE LimitSTF

\* (mutant) the comparison is >=: a summary of exactly L characters gets the
\* marker
TruncateAtLimit(ementa, L) ==
  IF Len(ementa) >= L THEN Prefix(ementa, L) \o Marker ELSE ementa

\* ementa[:L] + "..." if len(ementa) > L else ementa
Truncate(ementa, L) ==
  IF Len(ementa) > L THEN Prefix(ementa, L) \o Marker ELSE ementa

\* if not titulo_elem or not link_elem: continue
LacksTitleOrLink(item) ==
  IF item.h4 = None THEN TRUE ELSE Val(item.h4).a = None

\* link_elem.get('href', '')
Href(a) == IF a.href = None THEN <<>> ELSE Val(a.href)

\* the relator and data_julgamento of an item: STFScraperSimples matches a
\* pattern on the text of the metadata div, STFScraper selects the span that
\* contains the label
MetaField(c, item, label) ==
  IF c = "Simples"
  THEN LabelMatch(IF item.meta = None THEN <<>> ELSE GetText(Val(item.meta)), label)
  ELSE SpanMatch(IF item.meta = None THEN <<>> ELSE Val(item.meta), label)

\* the source summary text: get_text(strip=True) of div.search-result-text,
\* "" when the element is absent
EmentaText(item) == IF item.text = None THEN <<>> ELSE GetText(Val(item.text))

\* the dict appended for an item that has its title and its link
MakeRecord(c, item) ==
  LET titulo == GetText(Val(item.h4).strings)
  IN  [titulo          |-> titulo,
       numero_processo |-> ProcessoMatch(titulo),
       relator         |-> MetaField(c, item, LabelRelator),
       data_julgamento |-> MetaField(c, item, LabelJulgamento),
       ementa          |-> Truncate(EmentaText(item), Limit(c)),
       link            |-> BASE_URL \o Href(Val(Val(item.h4).a))]

\* the dict of an item of which nothing was extracted
BlankRecord ==
  [titulo |-> <<>>, numero_processo |-> <<>>, relator |-> <<>>,
   data_julgamento |-> <<>>, ementa |-> <<>>, link |-> <<>>]

\* (mutant) a record equal to one already collected is not added again
EmitUnique(acc, rec) ==
  IF \E k \in 1..Len(acc) : acc[k] = rec THEN acc ELSE Append(acc, rec)

\* resultados.append({...}): the record goes to the end of the list
Emit(acc, rec) == Append(acc, rec)

\* (mutant) an item without title or link is kept as a blank record
AfterSkipKeepsBlank(acc) == Append(acc, BlankRecord)

\* if not titulo_elem or not link_elem: continue leaves resultados as it is
AfterSkip(acc) == acc

\* (mutant) the handler starts the list over
AfterItemExceptionResets(acc) == <<>>

\* an exception raised inside the loop body: except Exception: continue keeps
\* what was accumulated
AfterItemException(acc) == acc

\* STFScraper after the loop: if not resultados: return fallback
NeedsFallbackAfterLoop(c, acc) == c = "STF" /\ acc = <<>>

\* (mutant) an empty page returns [] in both classes
NoItemsNeverFallsBack(c) == FALSE

\* (mutant) an empty page falls back in both classes
NoItemsAlwaysFallsBack(c) == TRUE

\* if not result_items: STFScraper falls back, STFScraperSimples returns []
NoItemsFallsBack(c) == c = "STF"

\* (mutant) only the clause for requests.RequestException is there
CaughtByFirstClause(c, o) == {"RequestException"}

\* the exception classes the except clauses of the method name:
\* requests.RequestException derives from Exception, so except Exception
\* takes both
CaughtBy(c, o) ==
  IF c = "STF" /\ o = "buscar"
  THEN {"RequestException"} \cup {"RequestException", "Exception"}
  ELSE {"RequestException", "Exception"}

\* (mutant) the fallback methods have no handler of their own
FallbackCaughtNothing == {}

\* except Exception as e in _fallback_search and in _fallback_processo
FallbackCaught == {"RequestException", "Exception"}

\* (mutant) the handler of STFScraper returns [] as well
ExceptReturnsEmpty(c) == FALSE

\* the except clauses around the request: STFScraper falls back,
\* STFScraperSimples returns []
ExceptFallsBack(c) == c = "STF"

---------------------------------------------------------------------------
(* obter_detalhes_processo: the extraction *)

\* the text of an element with one string: get_text(strip=True)
ElemText(e) == Strip(Val(e))

\* (mutant) every key found in the label sets its field: if, not elif
MetaStepEveryKey(d, item) ==
  IF item.label = None \/ item.value = None THEN d
  ELSE LET label == Lower(ElemText(item.label))
           value == ElemText(item.value)
       IN  [d EXCEPT
              !.relator = IF Find(label, KeyRelator) > 0 THEN value ELSE @,
              !.data_julgamento = IF Find(label, KeyJulgamento) > 0 THEN value ELSE @,
              !.data_publicacao = IF Find(label, KeyPublicacao) > 0 THEN value ELSE @,
              !.orgao_julgador = IF Find(label, KeyOrgao) > 0 THEN value ELSE @]

\* one div.document-metadata-item: skipped without label or value element,
\* else the first key found in the lowered label names the field to set
MetaStep(d, item) ==
  IF item.label = None \/ item.value = None THEN d
  ELSE LET label == Lower(ElemText(item.label))
           value == ElemText(item.value)
       IN  IF Find(label, KeyRelator) > 0 THEN [d EXCEPT !.relator = value]
           ELSE IF Find(label, KeyJulgamento) > 0 THEN [d EXCEPT !.data_julgamento = value]
           ELSE IF Find(label, KeyPublicacao) > 0 THEN [d EXCEPT !.data_publicacao = value]
           ELSE IF Find(label, KeyOrgao) > 0 THEN [d EXCEPT !.orgao_julgador = value]
           ELSE d

RECURSIVE ApplyMeta(_, _)
\* for item in metadata_items
ApplyMeta(d, items) ==
  IF items = <<>> THEN d ELSE ApplyMeta(MetaStep(d, Head(items)), Tail(items))

RECURSIVE PartesOfUnique(_)
\* (mutant) a party equal to a later one of the list is left out
PartesOfUnique(items) ==
  IF items = <<>> THEN <<>>
  ELSE LET it == Head(items)
       IN  IF it.tipo # None /\ it.nome # None
              /\ \A k \in 1..Len(Tail(items)) : Tail(items)[k] # it
           THEN <<[tipo |-> ElemText(it.tipo), nome |-> ElemText(it.nome)]>>
                  \o PartesOfUnique(Tail(items))
           ELSE PartesOfUnique(Tail(items))

RECURSIVE PartesOf(_)
\* for parte_item in partes_items: appended when tipo and nome are both there
PartesOf(items) ==
  IF items = <<>> THEN <<>>
  ELSE LET it == Head(items)
       IN  IF it.tipo # None /\ it.nome # None
           THEN <<[tipo |-> ElemText(it.tipo), nome |-> ElemText(it.nome)]>>
                  \o PartesOf(Tail(items))
           ELSE PartesOf(Tail(items))

\* the element's get_text(strip=True), "" when it is absent
OptText(e) == IF e = None THEN <<>> ELSE GetText(Val(e))

\* (mutant) the docket number is read from the title of the document and
\* the link is the address of the site
ExtractDetailFromPage(numero, url, doc) ==
  ApplyMeta([numero_processo |-> ProcessoMatch(OptText(doc.titulo)),
             titulo          |-> OptText(doc.titulo),
             relator         |-> <<>>,
             data_julgamento |-> <<>>,
             data_publicacao |-> <<>>,
             orgao_julgador  |-> <<>>,
             ementa          |-> OptText(doc.ementa),
             decisao         |-> OptText(doc.decisao),
             partes          |-> IF doc.partes = None THEN <<>>
                                 ELSE PartesOf(Val(doc.partes)),
             link            |-> BASE_URL],
            doc.metadata)

\* the dict detalhes built from the document page
ExtractDetail(numero, url, doc) ==
  ApplyMeta([numero_processo |-> numero,
             titulo          |-> OptText(doc.titulo),
             relator         |-> <<>>,
             data_julgamento |-> <<>>,
             data_publicacao |-> <<>>,
             orgao_julgador  |-> <<>>,
             ementa          |-> OptText(doc.ementa),
             decisao         |-> OptText(doc.decisao),
             partes          |-> IF doc.partes = None THEN <<>>
                                 ELSE PartesOf(Val(doc.partes)),
             link            |-> url],
            doc.metadata)

---------------------------------------------------------------------------
(* State machine *)

\* after __init__: a scraper of either class, no call in progress
Init ==
  /\ cls \in {"Simples", "STF"}
  /\ op = "none"
  /\ pc = "idle"
  /\ query = <<>>
  /\ max_results = 0
  /\ net = "none"
  /\ response = NoResponse
  /\ result_items = <<>>
  /\ idx = 0
  /\ resultados = <<>>
  /\ ret = <<>>
  /\ path = "none"
  /\ getCount = 0
  /\ fallbackCalls = 0
  /\ doc_url = <<>>
  /\ doc_response = [status |-> 0, body |-> DocRejected]
  /\ requested = <<>>
  /\ exc = "none"

\* a return statement
Return(value, p) ==
  /\ ret' = value
  /\ path' = p
  /\ pc' = "done"

\* an exception inside a fallback method: its own except Exception returns
\* the value; were it to leave the method, it would reach the handlers of
\* the caller when the fallback was called inside the try block (no
\* exception raised so far), and leave the caller when it was called by a
\* handler
FallbackFailure(value) ==
  IF "Exception" \in FallbackCaught
  THEN Return(value, "fallback") /\ UNCHANGED exc
  ELSE /\ exc' = "Exception"
       /\ pc' = IF exc = "none" THEN "except" ELSE "raised"
       /\ UNCHANGED <<ret, path>>

\* buscar_jurisprudencia(query, max_results) is called
CallBuscar ==
  /\ pc = "idle"
  /\ \E q \in Queries, m \in 0..MaxResults :
       /\ query' = q
       /\ max_results' = m
  /\ op' = "buscar"
  /\ pc' = "get"
  /\ UNCHANGED <<cls, net, response, result_items, idx, resultados, ret, path,
                 getCount, requested, fallbackCalls, doc_url, doc_response, exc>>

\* self.session.get(search_url, timeout=30) raises: a transport error or the
\* timeout
GetFails ==
  /\ pc = "get"
  /\ net' \in {"error", "timeout"}
  /\ getCount' = getCount + 1
  /\ requested' = Append(requested, RequestUrl(op, query, max_results))
  /\ exc' = "RequestException"
  /\ pc' = "except"
  /\ UNCHANGED <<cls, op, query, max_results, response, result_items, idx,
                 resultados, ret, path, fallbackCalls, doc_url, doc_response>>

\* self.session.get(search_url, timeout=30) returns a response
GetResponds ==
  /\ pc = "get"
  /\ net' = "response"
  /\ response' \in Responses
  /\ getCount' = getCount + 1
  /\ requested' = Append(requested, RequestUrl(op, query, max_results))
  /\ pc' = "got"
  /\ UNCHANGED <<cls, op, query, max_results, result_items, idx, resultados,
                 ret, path, fallbackCalls, doc_url, doc_response, exc>>

\* response.raise_for_status() raises HTTPError, a RequestException
HttpError ==
  /\ pc = "got"
  /\ RaiseForStatus(response.status)
  /\ exc' = "RequestException"
  /\ pc' = "except"
  /\ UNCHANGED <<cls, op, query, max_results, net, response, result_items, idx,
                 resultados, ret, path, getCount, requested, fallbackCalls, doc_url, doc_response>>

\* STFScraper: the status is not 200
StatusRefused ==
  /\ pc = "got"
  /\ op = "buscar"
  /\ ~RaiseForStatus(response.status)
  /\ StatusNot200(cls, response.status)
  /\ pc' = "fallback"
  /\ UNCHANGED <<cls, op, query, max_results, net, response, result_items, idx,
                 resultados, ret, path, getCount, requested, fallbackCalls, doc_url, doc_response, exc>>

\* BeautifulSoup(response.text, 'html.parser') raises
ParseFails ==
  /\ pc = "got"
  /\ op = "buscar"
  /\ ~RaiseForStatus(response.status)
  /\ ~StatusNot200(cls, response.status)
  /\ ~response.body.ok
  /\ exc' = "Exception"
  /\ pc' = "except"
  /\ UNCHANGED <<cls, op, query, max_results, net, response, result_items, idx,
                 resultados, ret, path, getCount, requested, fallbackCalls, doc_url, doc_response>>

\* soup.select('div.search-result-item') is empty
NoItems ==
  /\ pc = "got"
  /\ op = "buscar"
  /\ ~RaiseForStatus(response.status)
  /\ ~StatusNot200(cls, response.status)
  /\ response.body.ok
  /\ response.body.items = <<>>
  /\ resultados' = <<>>
  /\ IF NoItemsFallsBack(cls)
     THEN pc' = "fallback" /\ UNCHANGED <<ret, path>>
     ELSE Return(<<>>, "empty")
  /\ UNCHANGED <<cls, op, query, max_results, net, response, result_items, idx,
                 getCount, requested, fallbackCalls, doc_url, doc_response, exc>>

\* the page has items: the loop starts over result_items[:max_results]
EnterLoop ==
  /\ pc = "got"
  /\ op = "buscar"
  /\ ~RaiseForStatus(response.status)
  /\ ~StatusNot200(cls, response.status)
  /\ response.body.ok
  /\ response.body.items # <<>>
  /\ resultados' = <<>>
  /\ result_items' = Window(response.body.items, max_results)
  /\ idx' = 1
  /\ pc' = "loop"
  /\ UNCHANGED <<cls, op, query, max_results, net, response, ret, path,
                 getCount, requested, fallbackCalls, doc_url, doc_response, exc>>

\* one iteration: the item lacks its title or its link and is skipped
ItemSkipped ==
  /\ pc = "loop"
  /\ idx <= Len(result_items)
  /\ LacksTitleOrLink(result_items[idx])
  /\ resultados' = AfterSkip(resultados)
  /\ idx' = idx + 1
  /\ UNCHANGED <<cls, op, pc, query, max_results, net, response, result_items,
                 ret, path, getCount, requested, fallbackCalls, doc_url, doc_response, exc>>

\* one iteration: a step of the extraction raises, the handler continues
ItemRaises ==
  /\ pc = "loop"
  /\ idx <= Len(result_items)
  /\ ~LacksTitleOrLink(result_items[idx])
  /\ result_items[idx].fault # "none"
  /\ resultados' = AfterItemException(resultados)
  /\ idx' = idx + 1
  /\ UNCHANGED <<cls, op, pc, query, max_results, net, response, result_items,
                 ret, path, getCount, requested, fallbackCalls, doc_url, doc_response, exc>>

\* one iteration: the record of the item is appended
ItemEmitted ==
  /\ pc = "loop"
  /\ idx <= Len(result_items)
  /\ ~LacksTitleOrLink(result_items[idx])
  /\ result_items[idx].fault = "none"
  /\ resultados' = Emit(resultados, MakeRecord(cls, result_items[idx]))
  /\ idx' = idx + 1
  /\ UNCHANGED <<cls, op, pc, query, max_results, net, response, result_items,
                 ret, path, getCount, requested, fallbackCalls, doc_url, doc_response, exc>>

\* the loop is over: return resultados, or STFScraper's fallback when empty
LoopDone ==
  /\ pc = "loop"
  /\ idx > Len(result_items)
  /\ IF NeedsFallbackAfterLoop(cls, resultados)
     THEN pc' = "fallback" /\ UNCHANGED <<ret, path>>
     ELSE Return(resultados, "page")
  /\ UNCHANGED <<cls, op, query, max_results, net, response, result_items, idx,
                 resultados, getCount, requested, fallbackCalls, doc_url, doc_response, exc>>

\* the except clauses of buscar_jurisprudencia; an exception none of them
\* names leaves the method
ExceptBuscar ==
  /\ pc = "except"
  /\ op = "buscar"
  /\ IF exc \notin CaughtBy(cls, op)
     THEN pc' = "raised" /\ UNCHANGED <<ret, path>>
     ELSE IF ExceptFallsBack(cls)
     THEN pc' = "fallback" /\ UNCHANGED <<ret, path>>
     ELSE Return(<<>>, "except")
  /\ UNCHANGED <<cls, op, query, max_results, net, response, result_items, idx,
                 resultados, getCount, requested, fallbackCalls, doc_url, doc_response, exc>>

\* _fallback_search(query, max_results): the completion call raises, or its
\* answer is no JSON object: except Exception: return []
FallbackSearchFails ==
  /\ pc = "fallback"
  /\ op = "buscar"
  /\ fallbackCalls' = fallbackCalls + 1
  /\ FallbackFailure(<<>>)
  /\ UNCHANGED <<cls, op, query, max_results, net, response, result_items, idx,
                 resultados, getCount, requested, doc_url, doc_response>>

\* _fallback_search(query, max_results): resultados.get("resultados", []) of
\* whatever the language model answered
FallbackSearchAnswers ==
  /\ pc = "fallback"
  /\ op = "buscar"
  /\ fallbackCalls' = fallbackCalls + 1
  /\ \E n \in 0..MaxFallback : Return(FallbackList(n), "fallback")
  /\ UNCHANGED <<cls, op, query, max_results, net, response, result_items, idx,
                 resultados, getCount, requested, doc_url, doc_response, exc>>

\* obter_detalhes_processo(numero_processo) is called (STFScraper only)
CallDetalhes ==
  /\ pc = "idle"
  /\ cls = "STF"
  /\ query' \in Dockets
  /\ op' = "detalhes"
  /\ pc' = "get"
  /\ UNCHANGED <<cls, max_results, net, response, result_items, idx, resultados,
                 ret, path, getCount, requested, fallbackCalls, doc_url, doc_response, exc>>

\* BeautifulSoup(response.text, 'html.parser') raises on the lookup page
LookupParseFails ==
  /\ pc = "got"
  /\ op = "detalhes"
  /\ ~RaiseForStatus(response.status)
  /\ ~response.body.ok
  /\ exc' = "Exception"
  /\ pc' = "except"
  /\ UNCHANGED <<cls, op, query, max_results, net, response, result_items, idx,
                 resultados, ret, path, getCount, requested, fallbackCalls, doc_url, doc_response>>

\* soup.select_one('div.search-result-item') is None
LookupNoItem ==
  /\ pc = "got"
  /\ op = "detalhes"
  /\ ~RaiseForStatus(response.status)
  /\ response.body.ok
  /\ response.body.items = <<>>
  /\ pc' = "fallback"
  /\ UNCHANGED <<cls, op, query, max_results, net, response, result_items, idx,
                 resultados, ret, path, getCount, requested, fallbackCalls, doc_url, doc_response, exc>>

\* result_item.select_one('h4.search-result-title a') is None
LookupNoLink ==
  /\ pc = "got"
  /\ op = "detalhes"
  /\ ~RaiseForStatus(response.status)
  /\ response.body.ok
  /\ response.body.items # <<>>
  /\ LacksTitleOrLink(response.body.items[1])
  /\ pc' = "fallback"
  /\ UNCHANGED <<cls, op, query, max_results, net, response, result_items, idx,
                 resultados, ret, path, getCount, requested, fallbackCalls, doc_url, doc_response, exc>>

\* documento_url = self.BASE_URL + link_elem.get('href', '')
LookupFound ==
  /\ pc = "got"
  /\ op = "detalhes"
  /\ ~RaiseForStatus(response.status)
  /\ response.body.ok
  /\ response.body.items # <<>>
  /\ ~LacksTitleOrLink(response.body.items[1])
  /\ doc_url' = BASE_URL \o Href(Val(Val(response.body.items[1].h4).a))
  /\ pc' = "docget"
  /\ UNCHANGED <<cls, op, query, max_results, net, response, result_items, idx,
                 resultados, ret, path, getCount, requested, fallbackCalls, doc_response, exc>>

\* self.session.get(documento_url, timeout=30) raises
DocGetFails ==
  /\ pc = "docget"
  /\ net' \in {"error", "timeout"}
  /\ getCount' = getCount + 1
  /\ requested' = Append(requested, doc_url)
  /\ exc' = "RequestException"
  /\ pc' = "except"
  /\ UNCHANGED <<cls, op, query, max_results, response, result_items, idx,
                 resultados, ret, path, fallbackCalls, doc_url, doc_response>>

\* self.session.get(documento_url, timeout=30) returns a response
DocGetResponds ==
  /\ pc = "docget"
  /\ net' = "response"
  /\ doc_response' \in DocResponses
  /\ getCount' = getCount + 1
  /\ requested' = Append(requested, doc_url)
  /\ pc' = "docgot"
  /\ UNCHANGED <<cls, op, query, max_results, response, result_items, idx,
                 resultados, ret, path, fallbackCalls, doc_url, exc>>

\* doc_response.raise_for_status() raises
DocHttpError ==
  /\ pc = "docgot"
  /\ RaiseForStatus(doc_response.status)
  /\ exc' = "RequestException"
  /\ pc' = "except"
  /\ UNCHANGED <<cls, op, query, max_results, net, response, result_items, idx,
                 resultados, ret, path, getCount, requested, fallbackCalls, doc_url, doc_response>>

\* BeautifulSoup(doc_response.text, 'html.parser') raises
DocParseFails ==
  /\ pc = "docgot"
  /\ ~RaiseForStatus(doc_response.status)
  /\ ~doc_response.body.ok
  /\ exc' = "Exception"
  /\ pc' = "except"
  /\ UNCHANGED <<cls, op, query, max_results, net, response, result_items, idx,
                 resultados, ret, path, getCount, requested, fallbackCalls, doc_url, doc_response>>

\* the document page is parsed: detalhes is filled from it and returned
DocExtract ==
  /\ pc = "docgot"
  /\ ~RaiseForStatus(doc_response.status)
  /\ doc_response.body.ok
  /\ Return(ExtractDetail(query, doc_url, doc_response.body), "scrape")
  /\ UNCHANGED <<cls, op, query, max_results, net, response, result_items, idx,
                 resultados, getCount, requested, fallbackCalls, doc_url, doc_response, exc>>

\* except Exception of obter_detalhes_processo
ExceptDetalhes ==
  /\ pc = "except"
  /\ op = "detalhes"
  /\ pc' = IF exc \in CaughtBy(cls, op) THEN "fallback" ELSE "raised"
  /\ UNCHANGED <<cls, op, query, max_results, net, response, result_items, idx,
                 resultados, ret, path, getCount, requested, fallbackCalls, doc_url, doc_response, exc>>

\* _fallback_processo(numero_processo): the completion call raises or its
\* answer is no JSON
FallbackProcessoFails ==
  /\ pc = "fallback"
  /\ op = "detalhes"
  /\ fallbackCalls' = fallbackCalls + 1
  /\ FallbackFailure(FallbackErro(query))
  /\ UNCHANGED <<cls, op, query, max_results, net, response, result_items, idx,
                 resultados, getCount, requested, doc_url, doc_response>>

\* _fallback_processo(numero_processo): the parsed answer is returned
FallbackProcessoAnswers ==
  /\ pc = "fallback"
  /\ op = "detalhes"
  /\ fallbackCalls' = fallbackCalls + 1
  /\ Return(FallbackDetalhes(query), "fallback")
  /\ UNCHANGED <<cls, op, query, max_results, net, response, result_items, idx,
                 resultados, getCount, requested, doc_url, doc_response, exc>>

Next ==
  \/ CallBuscar
  \/ GetFails
  \/ GetResponds
  \/ HttpError
  \/ StatusRefused
  \/ ParseFails
  \/ NoItems
  \/ EnterLoop
  \/ ItemSkipped
  \/ ItemRaises
  \/ ItemEmitted
  \/ LoopDone
  \/ ExceptBuscar
  \/ FallbackSearchFails
  \/ FallbackSearchAnswers
  \/ CallDetalhes
  \/ LookupParseFails
  \/ LookupNoItem
  \/ LookupNoLink
  \/ LookupFound
  \/ DocGetFails
  \/ DocGetResponds
  \/ DocHttpError
  \/ DocParseFails
  \/ DocExtract
  \/ ExceptDetalhes
  \/ FallbackProcessoFails
  \/ FallbackProcessoAnswers

Spec == Init /\ [][Next]_vars

---------------------------------------------------------------------------
(* Vocabulary of the properties *)

\* the call of buscar_jurisprudencia has returned
BuscarDone == pc = "done" /\ op = "buscar"

\* the request returned a response whose markup was parsed
PageParsed == net = "response" /\ response.body.ok

\* the loop over the items was entered (and, once pc leaves "loop", is over)
LoopEntered == op = "buscar" /\ idx >= 1

\* the number of items the slice [:m] keeps of n items
SliceLen(n, m) ==
  IF m >= 0 THEN (IF m < n THEN m ELSE n) ELSE (IF n + m > 0 THEN n + m ELSE 0)

\* the first max_results items of the served page, in document order
FirstItems == [i \in 1..SliceLen(Len(response.body.items), max_results) |->
                 response.body.items[i]]

\* the item has its title heading and the anchor inside it
HasTitleAndLink(item) == item.h4 # None /\ Val(item.h4).a # None
Malformed(item) == ~HasTitleAndLink(item)

\* the item has title and link and its extraction raises
Raising(item) == HasTitleAndLink(item) /\ item.fault # "none"

\* the item has title and link and its extraction runs through
Emitting(item) == HasTitleAndLink(item) /\ item.fault = "none"

RECURSIVE RecordsOf(_, _)
\* the records of the emitting items of a list, in order
RecordsOf(c, items) ==
  IF items = <<>> THEN <<>>
  ELSE IF Emitting(Head(items))
       THEN <<MakeRecord(c, Head(items))>> \o RecordsOf(c, Tail(items))
       ELSE RecordsOf(c, Tail(items))

\* how many items of a list have title and link, lack one, raise, emit
CountTitled(items) == Cardinality({i \in 1..Len(items) : HasTitleAndLink(items[i])})
CountMalformed(items) == Cardinality({i \in 1..Len(items) : Malformed(items[i])})
CountRaising(items) == Cardinality({i \in 1..Len(items) : Raising(items[i])})
CountEmitting(items) == Cardinality({i \in 1..Len(items) : Emitting(items[i])})

\* the limit of the summary: 300 in STFScraperSimples, 500 in STFScraper
LimitOf(c) == IF c = "Simples" THEN LimitSimples ELSE LimitSTF

\* a 2xx status
Success(status) == status >= 200 /\ status <= 299

\* the call of obter_detalhes_processo has returned
DetalhesDone == pc = "done" /\ op = "detalhes"

\* the document GET returned a response that passed raise_for_status and
\* whose markup was parsed
DocParsed ==
  /\ op = "detalhes"
  /\ doc_response.status # 0
  /\ ~(doc_response.status >= 400)
  /\ doc_response.body.ok

\* the document page lacks the detail root container: none of the elements
\* of a document is in it
DetailRootMissing(doc) ==
  /\ doc.titulo = None
  /\ doc.metadata = <<>>
  /\ doc.ementa = None
  /\ doc.decisao = None
  /\ doc.partes = None

\* a detail record with nothing in it but the docket number and the link
AllEmpty(d) ==
  /\ d.titulo = <<>> /\ d.relator = <<>> /\ d.data_julgamento = <<>>
  /\ d.data_publicacao = <<>> /\ d.orgao_julgador = <<>> /\ d.ementa = <<>>
  /\ d.decisao = <<>> /\ d.partes = <<>>

---------------------------------------------------------------------------
(* Properties *)

\* C1: every item among the first max_results items that has the title
\* heading with an anchor yields a record, and the titulo and the link of
\* every returned record are non-empty.  (Stated as claimed; the code breaks
\* it: an anchor without text gives titulo "", and a raising item gives no
\* record.)
C1_TitledItemsYieldNonEmptyTituloAndLink ==
  (BuscarDone /\ LoopEntered /\ CountTitled(FirstItems) > 0) =>
    /\ path = "page"
    /\ Len(ret) = CountTitled(FirstItems)
    /\ \A k \in 1..Len(ret) : ret[k].titulo # <<>> /\ ret[k].link # <<>>

\* C2 as claimed: the returned records are those the page would give with its
\* malformed items (no title heading, or no anchor in it) taken out of the
\* page, each malformed item of the page making the result one shorter.
C2_SameAsPageWithoutMalformed ==
  (BuscarDone /\ path = "page" /\ max_results >= 1) =>
    LET clean == SelectSeq(response.body.items, HasTitleAndLink)
        kept  == [i \in 1..SliceLen(Len(clean), max_results) |-> clean[i]]
    IN  ret = RecordsOf(cls, kept)

\* C2 as amended: the records returned from the page are those of the first
\* max_results items with the malformed ones among them taken out; no record
\* comes from a malformed item, and the result is shorter than that window
\* by one per malformed item and one per item whose extraction raised.
C2_SameAsWindowWithoutMalformed ==
  (BuscarDone /\ path = "page") =>
    /\ ret = RecordsOf(cls, SelectSeq(FirstItems, HasTitleAndLink))
    /\ Len(ret) = Len(FirstItems) - CountMalformed(FirstItems)
                    - CountRaising(FirstItems)

\* C2 witness: a page with more items than max_results, a malformed item
\* inside the window, was processed and its other record returned
C2_Witness ==
  /\ BuscarDone /\ path = "page"
  /\ Len(response.body.items) > Len(FirstItems)
  /\ CountMalformed(FirstItems) >= 1
  /\ Len(ret) >= 1

\* C3: when the document page lacks the detail root container,
\* obter_detalhes_processo takes the fallback and does not return a scraped
\* record with every field empty.  (Stated as claimed; the code never looks
\* for a root container and returns the record it initialised.)
C3_MissingRootFallsBack ==
  (DetalhesDone /\ DocParsed /\ DetailRootMissing(doc_response.body)) =>
    /\ path = "fallback"
    /\ fallbackCalls >= 1
    /\ ~(path = "scrape" /\ AllEmpty(ret))

\* C4: the ementa of every emitted record is its source summary text s when
\* len(s) <= L (L = 300 in STFScraperSimples, 500 in STFScraper), and the
\* first L characters of s followed by "..." otherwise; never longer than
\* L + 3.
C4_EmentaTruncation ==
  LoopEntered =>
    LET done    == [i \in 1..(idx - 1) |-> FirstItems[i]]
        sources == SelectSeq(done, Emitting)
        L       == LimitOf(cls)
    IN  /\ Len(resultados) = Len(sources)
        /\ \A k \in 1..Len(sources) :
             LET s == EmentaText(sources[k])
                 e == resultados[k].ementa
             IN  /\ Len(s) <= L => e = s
                 /\ Len(s) > L =>
                      /\ Len(e) = L + 3
                      /\ \A j \in 1..L : e[j] = s[j]
                      /\ \A j \in 1..3 : e[L + j] = "."
                 /\ Len(e) <= L + 3

\* C4 witness: a summary of exactly L characters returned unmarked next to
\* one of L + 1 characters returned cut and marked
C4_Witness ==
  /\ BuscarDone /\ path = "page" /\ Len(ret) = 2
  /\ Len(FirstItems) = 2 /\ Emitting(FirstItems[1]) /\ Emitting(FirstItems[2])
  /\ Len(EmentaText(FirstItems[1])) = LimitOf(cls)
  /\ Len(ret[1].ementa) = LimitOf(cls)
  /\ Len(EmentaText(FirstItems[2])) = LimitOf(cls) + 1
  /\ Len(ret[2].ementa) = LimitOf(cls) + 3

\* C5: in STFScraper the fallback is invoked whenever the GET raises (a
\* transport error or the timeout), the status is no success, the page has
\* no div.search-result-item, or no record survives the extraction.
C5_FallbackWheneverNoRecords ==
  (BuscarDone /\ cls = "STF"
     /\ \/ net \in {"error", "timeout"}
        \/ net = "response" /\ ~Success(response.status)
        \/ PageParsed /\ response.body.items = <<>>
        \/ PageParsed /\ CountEmitting(FirstItems) = 0) =>
    /\ fallbackCalls >= 1
    /\ path = "fallback"

\* C5 witness: a 200 page with items of which none survives ended in the
\* fallback
C5_Witness ==
  /\ BuscarDone /\ cls = "STF" /\ PageParsed /\ response.status = 200
  /\ Len(FirstItems) >= 1
  /\ CountEmitting(FirstItems) = 0
  /\ fallbackCalls = 1

\* C6: in STFScraper a call whose GET returns a 2xx status and whose page
\* yields a surviving record returns the page's records and never invokes the
\* fallback.  (Stated as claimed; the code falls back on every status other
\* than 200.)
C6_NoFallbackOnSuccess ==
  (BuscarDone /\ cls = "STF" /\ PageParsed /\ Success(response.status)
     /\ CountEmitting(FirstItems) > 0) =>
    /\ fallbackCalls = 0
    /\ path = "page"
    /\ ret = RecordsOf(cls, FirstItems)

\* C7: STFScraperSimples, given a fetched page without any
\* div.search-result-item, returns the empty list by its return statement,
\* not through an exception handler.
C7_EmptyPageReturnsEmpty ==
  (BuscarDone /\ cls = "Simples" /\ PageParsed /\ Success(response.status)
     /\ response.body.items = <<>>) =>
    /\ ret = <<>>
    /\ path = "empty"
    /\ fallbackCalls = 0

\* C7 witness: such a call has returned
C7_Witness ==
  /\ BuscarDone /\ cls = "Simples" /\ PageParsed /\ response.status = 200
  /\ response.body.items = <<>>
  /\ path = "empty"

\* C8: every item of the window with a resolvable title and link is emitted,
\* a failure of an optional field only leaving that field empty.  (Stated as
\* claimed; in the code an exception in an optional field's extraction drops
\* the whole record.)
C8_OptionalFailureKeepsRecord ==
  (LoopEntered /\ pc # "loop") =>
    Len(resultados) = CountTitled(FirstItems)

\* C9: an exception while processing an item never aborts the batch: the
\* records accumulated so far stay, the loop goes on to every later item of
\* the window, and the records are what is returned.
C9_ExceptionKeepsBatch ==
  LoopEntered =>
    /\ idx <= Len(FirstItems) + 1
    /\ resultados = RecordsOf(cls, [i \in 1..(idx - 1) |-> FirstItems[i]])
    /\ pc # "loop" => idx = Len(FirstItems) + 1
    /\ path = "page" => ret = resultados

\* C9 witness: an item raised between two well-formed items and both their
\* records were returned
C9_Witness ==
  /\ BuscarDone /\ path = "page"
  /\ Len(FirstItems) = 3
  /\ Emitting(FirstItems[1]) /\ Raising(FirstItems[2]) /\ Emitting(FirstItems[3])
  /\ Len(ret) = 2

---------------------------------------------------------------------------
(* C11: the parameters of the search URL *)

RECURSIVE SplitOn(_, _)
\* the segments of t between the occurrences of the character sep
SplitOn(t, sep) ==
  IF \A i \in 1..Len(t) : t[i] # sep THEN <<t>>
  ELSE LET k == CHOOSE i \in 1..Len(t) : t[i] = sep /\ \A j \in 1..(i - 1) : t[j] # sep
       IN  <<SubSeq(t, 1, k - 1)>> \o SplitOn(SubSeq(t, k + 1, Len(t)), sep)

\* what a server reads back from a percent-encoded byte sequence
Decoded(code) ==
  CASE code = <<"2", "0">> -> " "
    [] code = <<"0", "A">> -> "\n"
    [] code = <<"2", "2">> -> "\""
    [] code = <<"2", "5">> -> "%"
    [] code = <<"2", "6">> -> "&"
    [] code = <<"2", "C">> -> ","
    [] code = <<"3", "A">> -> ":"
    [] code = <<"3", "D">> -> "="
    [] code = <<"3", "F">> -> "?"
    [] code = <<"C", "3", "A", "7">> -> "c_cedilla"
    [] code = <<"C", "3", "A", "3">> -> "a_tilde"
    [] code = <<"C", "3", "B", "3">> -> "o_acute"
    [] code = <<"C", "3", "8", "7">> -> "C_cedilla"
    [] code = <<"C", "3", "8", "3">> -> "A_tilde"
    [] code = <<"C", "3", "9", "3">> -> "O_acute"
    [] OTHER -> "undecodable"

RECURSIVE Unquote(_)
Unquote(t) ==
  IF t = <<>> THEN <<>>
  ELSE IF Head(t) # "%" THEN <<Head(t)>> \o Unquote(Tail(t))
  ELSE IF Len(t) >= 6 /\ t[2] = "C" /\ t[3] = "3" /\ t[4] = "%"
       THEN <<Decoded(<<t[2], t[3], t[5], t[6]>>)>> \o Unquote(SubSeq(t, 7, Len(t)))
  ELSE IF Len(t) >= 3
       THEN <<Decoded(<<t[2], t[3]>>)>> \o Unquote(SubSeq(t, 4, Len(t)))
  ELSE <<"undecodable">>

\* a requested URL addresses the search endpoint
OnSearchEndpoint(u) == SplitOn(u, "?")[1] = SEARCH_URL

\* the key=value segments of the query string of u
ParamsOf(u) ==
  LET parts == SplitOn(u, "?")
  IN  IF Len(parts) < 2 THEN <<>> ELSE SplitOn(parts[2], "&")

\* the values u carries for the parameter key
ValuesOf(u, key) ==
  LET ps == ParamsOf(u)
  IN  {SubSeq(ps[i], Len(key) + 2, Len(ps[i])) :
         i \in {j \in 1..Len(ps) : Prefix(ps[j], Len(key) + 1) = key \o <<"=">>}}

FixedParams ==
  { <<<<"b", "a", "s", "e">>, <<"a", "c", "o", "r", "d", "a", "o", "s">>>>, <<<<"s", "i", "n", "o", "n", "i", "m", "o">>, <<"t", "r", "u", "e">>>>,
    <<<<"p", "l", "u", "r", "a", "l">>, <<"t", "r", "u", "e">>>>, <<<<"p", "a", "g", "e">>, <<"1">>>>,
    <<<<"s", "o", "r", "t">>, <<"_", "s", "c", "o", "r", "e">>>>, <<<<"s", "o", "r", "t", "B", "y">>, <<"d", "e", "s", "c">>>> }

CarriesFixedParams(u) == \A kv \in FixedParams : ValuesOf(u, kv[1]) = {kv[2]}

DoubleQuote == <<"\"">>

\* C11: every URL requested from the search endpoint carries base=acordaos,
\* sinonimo=true, plural=true, page=1, sort=_score and sortBy=desc; the URL
\* of buscar_jurisprudencia has pageSize equal to max_results, and the
\* lookup URL of obter_detalhes_processo has pageSize=1 and, as its query,
\* the percent-encoding of the docket number between two double quotes.
C11_SearchUrlParameters ==
  \A i \in 1..Len(requested) :
    LET u == requested[i]
    IN  /\ (i = 1) => OnSearchEndpoint(u)
        /\ OnSearchEndpoint(u) =>
             /\ CarriesFixedParams(u)
             /\ op = "buscar" =>
                  ValuesOf(u, <<"p", "a", "g", "e", "S", "i", "z", "e">>) = {Str(max_results)}
             /\ op = "detalhes" =>
                  /\ ValuesOf(u, <<"p", "a", "g", "e", "S", "i", "z", "e">>) = {<<"1">>}
                  /\ \A v \in ValuesOf(u, <<"q", "u", "e", "r", "y">>) :
                       /\ \A k \in 1..Len(v) : v[k] \notin {"\"", " "}
                       /\ Unquote(v) = DoubleQuote \o query \o DoubleQuote
                  /\ ValuesOf(u, <<"q", "u", "e", "r", "y">>) # {}

\* the GET of a lookup for a docket number with a space, or of a search
\* with max_results = 3 for a query with a double quote, has been issued
C11_Witness ==
  /\ Len(requested) >= 1
  /\ \/ op = "detalhes" /\ \E k \in 1..Len(query) : query[k] = " "
     \/ op = "buscar" /\ max_results = 3 /\ \E k \in 1..Len(query) : query[k] = "\""

---------------------------------------------------------------------------
(* C12: the methods return, they never raise *)

\* how far a call has come: the statements of a method in their order
PcRank(p) ==
  CASE p = "idle"     -> 0
    [] p = "get"      -> 1
    [] p = "got"      -> 2
    [] p = "loop"     -> 3
    [] p = "docget"   -> 3
    [] p = "docgot"   -> 4
    [] p = "except"   -> 5
    [] p = "fallback" -> 6
    [] p = "done"     -> 7
    [] p = "raised"   -> 7

\* the value is a list of records
IsList(v) == DOMAIN v = 1..Len(v)

\* the value is a dict: a record with a numero_processo key
IsDict(v) == "numero_processo" \in DOMAIN v

---------------------------------------------------------------------------
(* C13: document order, no deduplication *)

\* the place in the returned list of the record of the i-th item of the
\* window: the number of record-producing items up to and including it
PlaceOf(i) == Cardinality({j \in 1..i : Emitting(FirstItems[j])})

\* C13: the records of a page are returned in the document order of their
\* items and none is dropped as a duplicate: the record of every item that
\* produces one stands at the place given by the number of producing items
\* up to it, so of two producing items the earlier one's record comes first
\* and two identical items give two records.
C13_DocumentOrderNoDedup ==
  (BuscarDone /\ path = "page") =>
    /\ Len(ret) = PlaceOf(Len(FirstItems))
    /\ \A i \in 1..Len(FirstItems) :
         Emitting(FirstItems[i]) =>
           /\ PlaceOf(i) <= Len(ret)
           /\ ret[PlaceOf(i)] = MakeRecord(cls, FirstItems[i])
    /\ \A i, j \in 1..Len(FirstItems) :
         (i < j /\ Emitting(FirstItems[i]) /\ Emitting(FirstItems[j])) =>
           PlaceOf(i) < PlaceOf(j)

\* a page with the same item twice was returned as two equal records
C13_Witness ==
  /\ BuscarDone
  /\ path = "page"
  /\ Len(ret) = 2
  /\ FirstItems[1] = FirstItems[2]
  /\ ret[1] = ret[2]

---------------------------------------------------------------------------
(* C14: the docket number of a title *)

\* at position i of t stand k uppercase letters, one space character and d
\* digits
DocketAt(t, i, k, d) ==
  /\ k \in 2..4
  /\ d >= 1
  /\ i + k + d <= Len(t)
  /\ \A j \in i..(i + k - 1) : t[j] \in Upper
  /\ t[i + k] = " "
  /\ \A j \in (i + k + 1)..(i + k + d) : t[j] \in Digit

\* the positions of t at which such a substring starts
DocketStarts(t) ==
  {i \in 1..Len(t) : \E k \in 2..4, d \in 1..Len(t) : DocketAt(t, i, k, d)}

\* C14: for every title, numero_processo is the empty string when the title
\* holds no substring of 2 to 4 uppercase letters, one space character and
\* one or more digits, and otherwise such a substring at the first position
\* where one starts.
C14_DocketIsFirstLettersSpaceDigits ==
  (BuscarDone /\ path = "page") =>
    \A r \in 1..Len(ret) :
      LET t == ret[r].titulo
          n == ret[r].numero_processo
      IN  IF DocketStarts(t) = {} THEN n = <<>>
          ELSE \E k \in 2..4, d \in 1..Len(t) :
                 LET i == CHOOSE p \in DocketStarts(t) : \A q \in DocketStarts(t) : p <= q
                 IN  DocketAt(t, i, k, d) /\ n = SubSeq(t, i, i + k + d)

---------------------------------------------------------------------------
(* C15: relator *)

\* the text of the metadata block of an item, "" when it has none
MetadataText(item) == IF item.meta = None THEN <<>> ELSE GetText(Val(item.meta))

\* pat occurs somewhere in t
Contains(t, pat) == \E p \in 1..Len(t) : StartsAt(t, p, pat)

\* the text of t from position s up to, not including, the next comma
UpToComma(t, s) ==
  LET stops == {j \in s..(Len(t) + 1) : j = Len(t) + 1 \/ t[j] = ","}
      stop  == CHOOSE j \in stops : \A q \in stops : j <= q
  IN  SubSeq(t, s, stop - 1)

\* the texts in which the label may be read: the text of the whole metadata
\* block and the text of each of its elements
MetadataTexts(item) ==
  {MetadataText(item)} \cup
  (IF item.meta = None THEN {}
   ELSE {Strip(Val(item.meta)[k]) : k \in 1..Len(Val(item.meta))})

\* the text after the first occurrence of label in t, up to the next comma,
\* without the whitespace around it
AfterLabel(t, label) ==
  LET at == CHOOSE p \in 1..Len(t) :
              /\ StartsAt(t, p, label)
              /\ \A q \in 1..(p - 1) : ~StartsAt(t, q, label)
  IN  Strip(UpToComma(t, at + Len(label)))

\* C15: for every emitted search record, relator is empty when the metadata
\* text of its item lacks "Relator:", and otherwise is the text after
\* "Relator:" up to the next comma (read in the metadata block or in the
\* element of it that holds the label, surrounding whitespace aside); it
\* never contains the label "Julgamento:" nor the judgment date of the record.
C15_RelatorIsTextAfterLabel ==
  (BuscarDone /\ path = "page") =>
    \A i \in 1..Len(FirstItems) :
      Emitting(FirstItems[i]) =>
        LET item == FirstItems[i]
            rec  == ret[PlaceOf(i)]
        IN  /\ ~Contains(MetadataText(item), LabelRelator) => rec.relator = <<>>
            /\ Contains(MetadataText(item), LabelRelator) =>
                 \E t \in MetadataTexts(item) :
                   /\ Contains(t, LabelRelator)
                   /\ rec.relator = AfterLabel(t, LabelRelator)
            /\ ~Contains(rec.relator, LabelJulgamento)
            /\ rec.data_julgamento # <<>> =>
                 ~Contains(rec.relator, rec.data_julgamento)

---------------------------------------------------------------------------
(* C16: the metadata pairs of the document page *)

\* obter_detalhes_processo returned the record scraped from the document
Scraped == DetalhesDone /\ path = "scrape"

MetaFields == {"relator", "data_julgamento", "data_publicacao", "orgao_julgador"}

KeyOf(f) ==
  CASE f = "relator"         -> <<"r", "e", "l", "a", "t", "o", "r">>
    [] f = "data_julgamento" -> <<"j", "u", "l", "g", "a", "m", "e", "n", "t", "o">>
    [] f = "data_publicacao" -> <<"p", "u", "b", "l", "i", "c", "a", "c_cedilla", "a_tilde", "o">>
    [] f = "orgao_julgador"  -> <<"o_acute", "r", "g", "a_tilde", "o", " ", "j", "u", "l", "g", "a", "d", "o", "r">>

\* the fields whose key occurs in the label of the pair, letter case aside;
\* none when the pair lacks its label or its value element
FieldsNamed(pair) ==
  IF pair.label = None \/ pair.value = None THEN {}
  ELSE {f \in MetaFields : Contains(Lower(Val(pair.label)), KeyOf(f))}

\* the record before the k-th pair of the page is handled: the returned one
\* with the four fields empty, after the pairs before the k-th
BeforePair(k) ==
  ApplyMeta([ret EXCEPT !.relator = <<>>, !.data_julgamento = <<>>,
                        !.data_publicacao = <<>>, !.orgao_julgador = <<>>],
            SubSeq(doc_response.body.metadata, 1, k - 1))

\* C16: in obter_detalhes_processo each metadata label/value pair sets at
\* most one of relator, data_julgamento, data_publicacao, orgao_julgador,
\* one whose key occurs in the label whatever its letter case, to the text
\* of the value; a pair whose label holds none of the keys, or that lacks
\* its label or its value element, leaves every field of the record as it
\* was.  The returned record is the result of handling the pairs in order.
C16_PairSetsAtMostOneField ==
  Scraped =>
    /\ \A k \in 1..Len(doc_response.body.metadata) :
         LET pair   == doc_response.body.metadata[k]
             before == BeforePair(k)
             after  == MetaStep(before, pair)
         IN  IF FieldsNamed(pair) = {} THEN after = before
             ELSE \E f \in FieldsNamed(pair) :
                    after = [before EXCEPT ![f] = Strip(Val(pair.value))]
    /\ ret = BeforePair(Len(doc_response.body.metadata) + 1)

\* a document was scraped in which one pair lacks its label, one lacks its
\* value, one has a label without any key and one a label with two keys
C16_Witness ==
  /\ Scraped
  /\ \E k \in 1..Len(doc_response.body.metadata) :
       doc_response.body.metadata[k].label = None
  /\ \E k \in 1..Len(doc_response.body.metadata) :
       doc_response.body.metadata[k].value = None
  /\ \E k \in 1..Len(doc_response.body.metadata) :
       LET pair == doc_response.body.metadata[k]
       IN  pair.label # None /\ pair.value # None /\ FieldsNamed(pair) = {}
  /\ \E k \in 1..Len(doc_response.body.metadata) :
       Cardinality(FieldsNamed(doc_response.body.metadata[k])) = 2

---------------------------------------------------------------------------
(* C17: the parties of the document page *)

\* the party items of the scraped document, none without the container
ParteItems ==
  IF doc_response.body.partes = None THEN <<>> ELSE Val(doc_response.body.partes)

\* the party item has its role element and its name element
Complete(it) == it.tipo # None /\ it.nome # None

\* the number of complete party items among the first i
CompleteUpTo(i) == Cardinality({j \in 1..i : Complete(ParteItems[j])})

\* C17: partes of a scraped record holds exactly one {tipo, nome} entry for
\* every party item that has both its role and its name element, in
\* document order and without deduplication; a party item that lacks either
\* element contributes nothing.
C17_OnePartePerCompleteItem ==
  Scraped =>
    /\ Len(ret.partes) = CompleteUpTo(Len(ParteItems))
    /\ \A i \in 1..Len(ParteItems) :
         Complete(ParteItems[i]) =>
           ret.partes[CompleteUpTo(i)] =
             [tipo |-> Strip(Val(ParteItems[i].tipo)),
              nome |-> Strip(Val(ParteItems[i].nome))]

\* a document was scraped whose parties include one without name, one
\* without role, and the same complete party twice, returned twice
C17_Witness ==
  /\ Scraped
  /\ \E i \in 1..Len(ParteItems) : ParteItems[i].tipo = None
  /\ \E i \in 1..Len(ParteItems) : ParteItems[i].nome = None
  /\ \E i, j \in 1..Len(ParteItems) :
       i < j /\ Complete(ParteItems[i]) /\ ParteItems[i] = ParteItems[j]
  /\ Len(ret.partes) = 2
  /\ ret.partes[1] = ret.partes[2]

---------------------------------------------------------------------------
(* C18: no retry *)

\* the GET of the call raised: no response came back
GetFailed == net \in {"error", "timeout"}

\* C18: a transport failure is never retried: a call of buscar_jurisprudencia
\* has issued one GET, to the search URL, when it returns, whatever the
\* outcome, and never more than one before; when the GET failed,
\* STFScraperSimples returns [] without any fallback and STFScraper hands
\* over to the fallback, whose value it returns.
C18_OneGetNoRetry ==
  /\ op = "buscar" => getCount <= 1 /\ Len(requested) = getCount
  /\ BuscarDone => getCount = 1
  /\ (op = "buscar" /\ GetFailed /\ pc = "fallback") => cls = "STF"
  /\ (BuscarDone /\ GetFailed /\ cls = "Simples") =>
       ret = <<>> /\ path = "except" /\ fallbackCalls = 0
  /\ (BuscarDone /\ GetFailed /\ cls = "STF") =>
       path = "fallback" /\ fallbackCalls = 1

\* STFScraper has returned records of the fallback after its one GET timed
\* out
C18_Witness ==
  /\ BuscarDone
  /\ net = "timeout"
  /\ getCount = 1
  /\ cls = "STF"
  /\ Len(ret) > 0

---------------------------------------------------------------------------
(* C19: the fallback runs once *)

\* C19: within one call of STFScraper.buscar_jurisprudencia or of
\* STFScraper.obter_detalhes_processo the fallback generator is invoked at
\* most once on every path, and STFScraperSimples never invokes it: once
\* it has run, failed or not, the call has returned its value, and no
\* handler of the caller has taken over from it.
C19_FallbackAtMostOnce ==
  /\ fallbackCalls <= 1
  /\ fallbackCalls = 1 => cls = "STF" /\ pc = "done" /\ path = "fallback"
  /\ cls = "Simples" => fallbackCalls = 0

\* the fallback was called inside the try block of obter_detalhes_processo,
\* failed, and the call returned its error record
C19_Witness ==
  /\ DetalhesDone
  /\ exc = "none"
  /\ fallbackCalls = 1
  /\ ret = FallbackErro(query)

---------------------------------------------------------------------------
(* C20: the two requests of obter_detalhes_processo *)

\* the lookup GET came back with a status that raise_for_status accepts and
\* a page whose first result item has a title anchor
LookupSucceeded ==
  /\ response.status >= 200
  /\ response.status < 400
  /\ response.body.ok
  /\ Len(response.body.items) >= 1
  /\ HasTitleAndLink(response.body.items[1])

\* the address the title anchor of the lookup page points to
AnchorTarget ==
  LET a == Val(Val(response.body.items[1].h4).a)
  IN  BASE_URL \o (IF a.href = None THEN <<>> ELSE Val(a.href))

\* C20: in obter_detalhes_processo the GET of the document page is issued
\* only after the lookup GET succeeded and its page held a result item with
\* a title anchor, and it goes to the address of that anchor; a call issues
\* at most two GETs; a record returned from the scraping path has
\* numero_processo equal to the docket number asked for and link equal to
\* the document URL that was fetched.
C20_DocumentGetAfterLookup ==
  op = "detalhes" =>
    /\ getCount <= 2
    /\ Len(requested) = getCount
    /\ (pc = "docget" \/ getCount = 2) =>
         /\ LookupSucceeded
         /\ doc_url = AnchorTarget
    /\ getCount = 2 => requested[2] = AnchorTarget
    /\ Scraped =>
         /\ getCount = 2
         /\ ret.numero_processo = query
         /\ ret.link = requested[2]

\* a record was scraped after two GETs from a document whose title is not
\* the docket number asked for
C20_Witness ==
  /\ Scraped
  /\ getCount = 2
  /\ ret.titulo # <<>>
  /\ ret.titulo # query
  /\ ret.link # BASE_URL

=============================================================================
